---- MODULE Spec2Model ----
(***************************************************************************)
(* axidraw-over-http (src/src/main.rs): the command relay between the gRPC *)
(* handlers (stream, clear, pause, resume, get_state) and the single       *)
(* consumer thread that writes commands to the serial port.                *)
(*                                                                         *)
(* Granularity.  One action per access to shared state (a lock request, a  *)
(* critical section, a channel send or receive, a serial write or read).   *)
(* Code that touches only task-local data is merged into the neighbouring  *)
(* shared access.  The two tokio mutexes are FIFO with hand-off: a         *)
(* released lock passes directly to its oldest waiter.  The handler tasks  *)
(* run on a multi-threaded runtime (main.rs:113) beside the consumer       *)
(* thread, so a step of one may fall between two shared accesses of        *)
(* another: the request for a lock, the drop of a guard and the drop of    *)
(* the next guard are steps of their own, in the handlers, in the consumer *)
(* thread, and while a panic unwinds that thread.                          *)
(***************************************************************************)
EXTENDS Naturals, Sequences, FiniteSets

(* ------------------------------ bounds --------------------------------- *)
MaxCommands == 2   \* commands accepted into the queue over a run
MaxWake == 2       \* resume() is not started with this many tokens pending
MaxPolls == 2      \* enumerations that may find no matching port

\* Two handler tasks run concurrently; each serves one call after another.
Tasks == {1, 2}
Consumer == 0      \* the thread spawned at main.rs:133
NoHolder == 99     \* an unlocked mutex

CR == "\r"
LF == "\n"
\* The raw command texts clients send, as sequences of characters.
CommandInputs == { <<>>, <<"a">>, <<"b">>, <<"a", CR>>, <<"a", LF, "b">> }
NoCommand == <<"-">>   \* no command: not a text a client can send

VARIABLES
    command_buffer,    \* VecDeque<String> behind command_buffer's mutex
    running_status,    \* RunningStatus behind running_status's mutex
    control_messages,  \* CheckBuffer tokens pending in the unbounded channel
    receiver_open,     \* the channel's receiver has not been dropped
    buffer_lock,       \* [holder, waiters] of command_buffer's mutex
    status_lock,       \* [holder, waiters] of running_status's mutex
    consumer_pc,       \* where the consumer thread is
    in_flight,         \* the command popped by the consumer, or NoCommand
    serial_out,        \* what has been written to the serial port, per write
    task_pc,           \* where each handler task is
    task_cmd,          \* the command a stream task is about to push
    task_state,        \* the BufferState a get_state task has built
    received,          \* the item a stream yielded in the step just taken
    response,          \* the reply a handler returned in the step just taken
    process,           \* where main() is: "acquiring", "opening", "serving",
                       \* "stopping" (shutdown signalled), "exited", "failed"
    device,            \* the --device argument, or NoDevice
    port_info,         \* the port get_serial_port matched, or NoPort
    polls,             \* enumerations that found no matching port
    waited,            \* seconds get_serial_port has slept
    \* history of the run, read by the properties only
    enqueued,          \* texts pushed to the queue, in push order
    buffer_ids,        \* for each queue entry, its index in enqueued
    in_flight_id,      \* index in enqueued of in_flight, or 0
    sent_ids,          \* indices in enqueued of the commands written
    cleared_ids,       \* indices in enqueued of the entries clear() dropped
    \* observers of the calls, each switched on by the specification using it
    pause_window,      \* "clean"/"overlapped" from a pause() return until the
                       \* next resume() start, else "none"; "overlapped": a
                       \* resume() had yet to store Running at that return
    pause_pushes,      \* pushes since pause_window opened
    last_effect,       \* the pause()/resume() call that stored last
    doomed,            \* entries queued when a clear() was called mid-exchange
    enq_paused,        \* entries pushed while running_status was Paused
    io_failed,         \* a serial write or read has failed
    pause_called,      \* a pause() was called and no resume() has started since
    pause_mark,        \* index in enqueued of the command in flight at that
                       \* call, or 0
    pause_writes,      \* serial writes since that call
    pass_writes,       \* serial writes since the consumer last took a token
    responses,         \* response lines read from the serial port
    call_ids,          \* for each task, the entries its latest stream call
                       \* has pushed
    observing          \* which observer the specification switched on

vars == << command_buffer, running_status, control_messages, receiver_open,
           buffer_lock, status_lock, consumer_pc, in_flight,
           serial_out, task_pc, task_cmd, task_state, received, response,
           process, device, port_info, polls, waited, enqueued,
           buffer_ids,
           in_flight_id, sent_ids, cleared_ids, pause_window,
           pause_pushes, last_effect, doomed, enq_paused,
           io_failed, pause_called, pause_mark, pause_writes, pass_writes,
           responses, call_ids, observing >>

(* ------------------------------ helpers -------------------------------- *)
Range(s) == { s[i] : i \in 1..Len(s) }

Contains(command, ch) == \E i \in 1..Len(command) : command[i] = ch

\* main.rs:51
IsInvalidNoLF(command) == Len(command) = 0 \/ Contains(command, CR)
IsInvalid(command) ==
    Len(command) = 0 \/ Contains(command, CR) \/ Contains(command, LF)

\* main.rs:208  format!("{}\r", command)
FrameDouble(command) == command \o <<CR, CR>>
Frame(command) == command \o <<CR>>

\* tokio::sync::Mutex: lock() takes a free mutex or queues behind it.
Unlocked == [holder |-> NoHolder, waiters |-> <<>>]
Lock(m, p) ==
    IF m.holder = NoHolder
    THEN [holder |-> p, waiters |-> <<>>]
    ELSE [m EXCEPT !.waiters = Append(@, p)]
\* Dropping the guard hands the mutex to the oldest waiter.
Unlock(m) ==
    IF m.waiters = <<>>
    THEN Unlocked
    ELSE [holder |-> Head(m.waiters), waiters |-> Tail(m.waiters)]

\* What a handler returns: Ok(Empty), Err(Status), or BufferState
\* (main.rs:52, 68, 74, 80, 89, 95-98).  "none": the step returned nothing.
Reply(kind) == [kind |-> kind, buffer_length |-> 0, running_status |-> "Running"]
NoReply == Reply("none")
\* A step that yields no stream item and returns no reply.
Silent == received' = NoCommand /\ response' = NoReply

\* VecDeque::push_back (main.rs:59) and pop_front (main.rs:145)
push_front(q, x) == <<x>> \o q
push_back(q, x) == Append(q, x)
PopAt(q) == 1
RemoveAt(q, k) == [i \in 1..(Len(q) - 1) |-> IF i < k THEN q[i] ELSE q[i + 1]]

\* main.rs:141  the inner loop's exit test
ShouldBreakAlways(status, q) == TRUE
ShouldBreakIgnoringStatus(status, q) == q = <<>>
ShouldBreak(status, q) == status # "Running" \/ q = <<>>

\* main.rs:78 and main.rs:84: the values pause() and resume() store
PauseValueSwapped == "Running"
PauseValue == "Paused"
ResumeValue == "Running"

(* --------------------------- device acquisition ------------------------ *)
\* main.rs:175  the product identifier, as a sequence of characters
EiBotBoard == <<"E", "i", "B", "o", "t", "B", "o", "a", "r", "d">>

NoDevice == "none"     \* no --device argument
NoProduct == <<"?">>   \* UsbPortInfo.product is None
NoPort == [port_name |-> "-", port_type |-> "-", product |-> NoProduct]

\* The --device arguments tried.
DeviceArgs == { NoDevice, "/dev/ttyS0", "/dev/absent" }

\* The ports an enumeration may list.
PortInfos ==
    { [port_name |-> "/dev/ttyACM0", port_type |-> "usb",
       product |-> <<"x">> \o EiBotBoard \o <<"y">>],
      [port_name |-> "/dev/ttyACM1", port_type |-> "usb",
       product |-> <<"E", "i", "B", "o", "t">>],
      [port_name |-> "/dev/ttyUSB0", port_type |-> "usb", product |-> NoProduct],
      [port_name |-> "/dev/ttyS0", port_type |-> "other", product |-> NoProduct] }

\* What available_ports() may return: an error, or a list of up to two ports.
Enumerations ==
    { [ok |-> FALSE, ports |-> <<>>] }
      \cup { [ok |-> TRUE, ports |-> <<>>] }
      \cup { [ok |-> TRUE, ports |-> <<p>>] : p \in PortInfos }
      \cup { [ok |-> TRUE, ports |-> <<p, q>>] : p \in PortInfos, q \in PortInfos }

\* main.rs:183  unwrap_or_default(): an enumeration error is an empty list.
UnwrapOrDefault(result) == IF result.ok THEN result.ports ELSE <<>>

\* str::contains (main.rs:175): pat occurs in text as a contiguous run.
StrContains(text, pat) ==
    \E k \in 0..(Len(text) - Len(pat)) :
        \A i \in 1..Len(pat) : text[k + i] = pat[i]

\* main.rs:174  product.as_ref().unwrap_or(&"".to_string())
ProductOrEmpty(product) == IF product = NoProduct THEN <<>> ELSE product

\* main.rs:167-179  port_filter
PortFilterAnyUsb(selector, info) ==
    IF selector # NoDevice THEN info.port_name = selector
    ELSE info.port_type = "usb"
PortFilter(selector, info) ==
    IF selector # NoDevice THEN info.port_name = selector
    ELSE IF info.port_type = "usb"
         THEN StrContains(ProductOrEmpty(info.product), EiBotBoard)
         ELSE FALSE

\* main.rs:184-186  .iter().find(port_filter).cloned(): the first match, or
\* NoPort.
Find(ports, selector) ==
    IF \E i \in 1..Len(ports) : PortFilter(selector, ports[i])
    THEN ports[CHOOSE i \in 1..Len(ports) :
                  /\ PortFilter(selector, ports[i])
                  /\ \A j \in 1..(i - 1) : ~PortFilter(selector, ports[j])]
    ELSE NoPort

\* main.rs:191  sleep(Duration::from_secs(1))
PollSeconds == 1

\* The port the server runs on in the specifications that start with the
\* port open.
OpenedPort ==
    [port_name |-> "/dev/ttyACM0", port_type |-> "usb",
     product |-> <<"x">> \o EiBotBoard \o <<"y">>]

(* ------------------------------ lifecycle ------------------------------ *)
lifecycle_vars == << process, device, port_info, polls, waited >>

\* The server and the consumer thread run from the moment main() has
\* started them (main.rs:133, 163) until the process ends.
Alive == process \in {"serving", "stopping"} /\ UNCHANGED lifecycle_vars

\* New calls are served until the shutdown signal (main.rs:156-161).
Accepting == process = "serving" /\ UNCHANGED lifecycle_vars

(* ------------------------------- Init ---------------------------------- *)
\* main.rs:125-128: empty channel, Running, empty queue; the consumer
\* thread starts in blocking_recv.
Created(mode) ==
    /\ observing = mode
    /\ command_buffer = <<>>
    /\ running_status = "Running"
    /\ control_messages = 0
    /\ receiver_open = TRUE
    /\ buffer_lock = Unlocked
    /\ status_lock = Unlocked
    /\ consumer_pc = "recv"
    /\ in_flight = NoCommand
    /\ serial_out = <<>>
    /\ task_pc = [t \in Tasks |-> "idle"]
    /\ task_cmd = [t \in Tasks |-> NoCommand]
    /\ task_state = [t \in Tasks |-> NoReply]
    /\ received = NoCommand
    /\ response = NoReply
    /\ enqueued = <<>>
    /\ buffer_ids = <<>>
    /\ in_flight_id = 0
    /\ sent_ids = <<>>
    /\ cleared_ids = {}
    /\ pause_window = "none"
    /\ pause_pushes = 0
    /\ last_effect = "none"
    /\ doomed = {}
    /\ enq_paused = {}
    /\ io_failed = FALSE
    /\ pause_called = FALSE
    /\ pause_mark = 0
    /\ pause_writes = 0
    /\ pass_writes = 0
    /\ responses = 0
    /\ call_ids = [t \in Tasks |-> {}]

\* main.rs:119-134  the port is open, the consumer thread and the server are
\* started.
Started(mode) ==
    /\ Created(mode)
    /\ process = "serving"
    /\ device = NoDevice
    /\ port_info = OpenedPort
    /\ polls = 0
    /\ waited = 0

\* main.rs:114-119  main() enters get_serial_port with the --device argument.
InitAcquire ==
    /\ Created("none")
    /\ process = "acquiring"
    /\ device \in DeviceArgs
    /\ port_info = NoPort
    /\ polls = 0
    /\ waited = 0

Init == Started("none")
InitPause == Started("pause")
InitState == Started("state")
InitClear == Started("clear")
InitFault == Started("fault")
InitWake == Started("wake")
InitMidDrain == Started("drain")
InitToken == Started("token")
InitExchange == Started("exchange")
InitStream == Started("stream")

(* ------------------------------ observers ------------------------------ *)
\* The consumer is inside send_to_serial_and_wait_for_ok (main.rs:201-219);
\* "reread": in the read loop after a read that failed.
Exchanging == consumer_pc \in {"write", "read", "reread"}
Reading == consumer_pc \in {"read", "reread"}

\* The events of a step, read off the program counters.
PauseReturned == \E t \in Tasks : task_pc[t] = "p_set" /\ task_pc'[t] = "idle"
ResumeStarted == \E t \in Tasks : task_pc[t] = "idle" /\ task_pc'[t] = "r_set"
ResumeStored == \E t \in Tasks : task_pc[t] = "r_set" /\ task_pc'[t] = "r_send"
ClearCalled == \E t \in Tasks : task_pc[t] = "idle" /\ task_pc'[t] = "c_clear"
ClearTookEffect == \E t \in Tasks : task_pc[t] = "c_clear" /\ task_pc'[t] = "idle"
Pushed == \E t \in Tasks : task_pc[t] = "s_push" /\ task_pc'[t] = "s_lock"
StateRead(t) == task_pc[t] = "g_read" /\ task_pc'[t] = "g_drop"
StateReturned(t) == task_pc[t] = "g_drop" /\ task_pc'[t] = "idle"
Written == serial_out' # serial_out

ObservePause ==
    /\ pause_window' =
          IF ResumeStarted THEN "none"
          ELSE IF PauseReturned
               THEN IF \E t \in Tasks : task_pc[t] = "r_set"
                    THEN "overlapped" ELSE "clean"
               ELSE pause_window
    /\ pause_pushes' =
          IF ResumeStarted \/ (PauseReturned /\ pause_window = "none") THEN 0
          ELSE IF Pushed /\ pause_window # "none" THEN pause_pushes + 1
               ELSE pause_pushes

ObserveState ==
    last_effect' = IF PauseReturned THEN "pause"
                   ELSE IF ResumeStored THEN "resume" ELSE last_effect

ObserveClear ==
    doomed' = IF ClearCalled /\ Exchanging
              THEN doomed \cup Range(buffer_ids) ELSE doomed

ObserveWake ==
    enq_paused' = IF Pushed /\ running_status = "Paused"
                  THEN enq_paused \cup {Len(enqueued')} ELSE enq_paused

\* The step is a serial failure: a write failed (the consumer panicked out
\* of "write"), the input ended, or a read came back as an error.  The last
\* is the consumer's own step into, or again into, "reread": every step of
\* a task moves that task, every step of main() moves the process.
SerialFailed ==
    \/ consumer_pc = "write" /\ consumer_pc' = "unwind_state"
    \/ Reading /\ consumer_pc' = "unwind_state"
    \/ Reading /\ consumer_pc' = "reread" /\ UNCHANGED << task_pc, process >>

ObserveFault == io_failed' = (io_failed \/ SerialFailed)

\* From the first pause() call after a resume() start to the next resume()
\* start: the command in flight at the call, the writes since the call.
PauseCalled == \E t \in Tasks : task_pc[t] = "idle" /\ task_pc'[t] = "p_set"
Popped == in_flight = NoCommand /\ in_flight' # NoCommand

ObserveMidDrain ==
    /\ pause_called' = IF ResumeStarted THEN FALSE
                       ELSE IF PauseCalled THEN TRUE ELSE pause_called
    /\ pause_mark' = IF ResumeStarted THEN 0
                     ELSE IF PauseCalled /\ ~pause_called THEN in_flight_id
                          ELSE pause_mark
    /\ pause_writes' = IF ResumeStarted \/ (PauseCalled /\ ~pause_called) THEN 0
                       ELSE IF pause_called /\ Written THEN pause_writes + 1
                            ELSE pause_writes

\* The consumer takes a token (main.rs:134); it returns to blocking_recv
\* (main.rs:142).
TokenTaken == consumer_pc = "recv" /\ consumer_pc' = "relock"
PassEnded == consumer_pc = "lock_buffer" /\ consumer_pc' = "break_state"

ObserveToken ==
    pass_writes' = IF TokenTaken THEN 0
                   ELSE IF Written THEN pass_writes + 1 ELSE pass_writes

\* main.rs:213-214  a read returns a line and the exchange ends.
LineRead == Reading /\ consumer_pc' = "drop_state"

ObserveExchange == responses' = IF LineRead THEN responses + 1 ELSE responses

\* Task t starts a stream call; it pushes; its call is refused.
StreamStarted(t) == task_pc[t] = "idle" /\ task_pc'[t] = "s_next"
PushedBy(t) == task_pc[t] = "s_push" /\ task_pc'[t] = "s_lock"
Rejected(t) ==
    /\ task_pc[t] = "s_next"
    /\ task_pc'[t] = "idle"
    /\ response'.kind = "invalid_argument"

ObserveStream ==
    call_ids' = [t \in Tasks |->
                    IF StreamStarted(t) THEN {}
                    ELSE IF PushedBy(t) THEN call_ids[t] \cup {Len(enqueued')}
                         ELSE call_ids[t]]

\* Every action ends with Observe: the observers the specification switched
\* on record the step, the others stay as they are.
Observe ==
    /\ IF observing = "pause" THEN ObservePause
       ELSE UNCHANGED << pause_window, pause_pushes >>
    /\ IF observing = "state" THEN ObserveState
       ELSE UNCHANGED last_effect
    /\ IF observing = "clear" THEN ObserveClear ELSE UNCHANGED doomed
    /\ IF observing = "wake" THEN ObserveWake ELSE UNCHANGED enq_paused
    /\ IF observing = "fault" THEN ObserveFault ELSE UNCHANGED io_failed
    /\ IF observing = "drain" THEN ObserveMidDrain
       ELSE UNCHANGED << pause_called, pause_mark, pause_writes >>
    /\ IF observing = "token" THEN ObserveToken ELSE UNCHANGED pass_writes
    /\ IF observing = "exchange" THEN ObserveExchange ELSE UNCHANGED responses
    /\ IF observing = "stream" THEN ObserveStream ELSE UNCHANGED call_ids
    /\ UNCHANGED observing

(* ------------------------- the consumer thread ------------------------- *)
\* main.rs:134  blocking_recv() takes one token.
ConsumerRecv ==
    /\ consumer_pc = "recv"
    /\ control_messages > 0
    /\ control_messages' = control_messages - 1
    /\ consumer_pc' = "relock"
    /\ Silent
    /\ UNCHANGED << command_buffer, running_status, receiver_open, buffer_lock,
                    status_lock, in_flight, serial_out, task_pc, task_cmd,
                    task_state, enqueued, buffer_ids, in_flight_id, sent_ids,
                    cleared_ids >>
    /\ Alive
    /\ Observe

\* main.rs:137-138  at the top of the inner loop, entered on a token or gone
\* round after an exchange, the thread asks for the running_status mutex.
ConsumerRelock ==
    /\ consumer_pc = "relock"
    /\ status_lock' = Lock(status_lock, Consumer)
    /\ consumer_pc' = "lock_status"
    /\ Silent
    /\ UNCHANGED << command_buffer, running_status, control_messages,
                    receiver_open, buffer_lock, in_flight, serial_out, task_pc,
                    task_cmd, task_state, enqueued, buffer_ids, in_flight_id,
                    sent_ids, cleared_ids >>
    /\ Alive
    /\ Observe

\* main.rs:139  holding running_status, the thread asks for command_buffer.
ConsumerLockBuffer ==
    /\ consumer_pc = "lock_status"
    /\ status_lock.holder = Consumer
    /\ buffer_lock' = Lock(buffer_lock, Consumer)
    /\ consumer_pc' = "lock_buffer"
    /\ Silent
    /\ UNCHANGED << command_buffer, running_status, control_messages,
                    receiver_open, status_lock, in_flight, serial_out, task_pc,
                    task_cmd, task_state, enqueued, buffer_ids, in_flight_id,
                    sent_ids, cleared_ids >>
    /\ Alive
    /\ Observe

\* main.rs:141-143  break: the guards drop in reverse order of declaration;
\* first the queue's.
ConsumerBreak ==
    /\ consumer_pc = "lock_buffer"
    /\ buffer_lock.holder = Consumer
    /\ ShouldBreak(running_status, command_buffer)
    /\ buffer_lock' = Unlock(buffer_lock)
    /\ consumer_pc' = "break_state"
    /\ Silent
    /\ UNCHANGED << command_buffer, running_status, control_messages,
                    receiver_open, status_lock, in_flight, serial_out, task_pc,
                    task_cmd, task_state, enqueued, buffer_ids, in_flight_id, sent_ids,
                    cleared_ids >>
    /\ Alive
    /\ Observe

\* main.rs:142, 134  then the run-state's guard drops and the thread returns
\* to blocking_recv.
ConsumerBreakState ==
    /\ consumer_pc = "break_state"
    /\ status_lock' = Unlock(status_lock)
    /\ consumer_pc' = "recv"
    /\ Silent
    /\ UNCHANGED << command_buffer, running_status, control_messages,
                    receiver_open, buffer_lock, in_flight, serial_out, task_pc,
                    task_cmd, task_state, enqueued, buffer_ids, in_flight_id, sent_ids,
                    cleared_ids >>
    /\ Alive
    /\ Observe

\* main.rs:145  buffer.pop_front().unwrap(), with both guards still held.
ConsumerPop ==
    /\ consumer_pc = "lock_buffer"
    /\ buffer_lock.holder = Consumer
    /\ ~ShouldBreak(running_status, command_buffer)
    /\ in_flight' = command_buffer[PopAt(command_buffer)]
    /\ in_flight_id' = buffer_ids[PopAt(command_buffer)]
    /\ command_buffer' = RemoveAt(command_buffer, PopAt(command_buffer))
    /\ buffer_ids' = RemoveAt(buffer_ids, PopAt(command_buffer))
    /\ consumer_pc' = "write"
    /\ Silent
    /\ UNCHANGED << running_status, control_messages, receiver_open,
                    buffer_lock, status_lock, serial_out, task_pc, task_cmd, task_state, enqueued, sent_ids, cleared_ids >>
    /\ Alive
    /\ Observe

\* main.rs:204-210  the command and one carriage return are written and
\* flushed.
ConsumerWrite ==
    /\ consumer_pc = "write"
    /\ serial_out' = Append(serial_out, Frame(in_flight))
    /\ sent_ids' = Append(sent_ids, in_flight_id)
    /\ consumer_pc' = "read"
    /\ Silent
    /\ UNCHANGED << command_buffer, running_status, control_messages,
                    receiver_open, buffer_lock, status_lock, in_flight, task_pc,
                    task_cmd, task_state, enqueued, buffer_ids, in_flight_id,
                    cleared_ids >>
    /\ Alive
    /\ Observe

\* A panic on the consumer thread (main.rs:204-213) unwinds it while the
\* process goes on.  The locals drop first, in reverse order of declaration:
\* here the queue's guard.
ConsumerPanic ==
    /\ buffer_lock' = Unlock(buffer_lock)
    /\ in_flight' = NoCommand
    /\ in_flight_id' = 0
    /\ consumer_pc' = "unwind_state"
    /\ Silent
    /\ UNCHANGED << command_buffer, running_status, control_messages,
                    receiver_open, status_lock, task_pc, task_cmd, task_state, enqueued,
                    buffer_ids, cleared_ids >>
    /\ Alive
    /\ Observe

\* main.rs:138  unwinding: the run-state's guard drops.
ConsumerUnwindState ==
    /\ consumer_pc = "unwind_state"
    /\ status_lock' = Unlock(status_lock)
    /\ consumer_pc' = "unwind_receiver"
    /\ Silent
    /\ UNCHANGED << command_buffer, running_status, control_messages,
                    receiver_open, buffer_lock, in_flight, serial_out, task_pc,
                    task_cmd, task_state, enqueued, buffer_ids, in_flight_id, sent_ids,
                    cleared_ids >>
    /\ Alive
    /\ Observe

\* main.rs:133-134  unwinding: the closure's captures drop after its locals,
\* the receiver among them; the thread ends.
ConsumerUnwindReceiver ==
    /\ consumer_pc = "unwind_receiver"
    /\ receiver_open' = FALSE
    /\ consumer_pc' = "dead"
    /\ Silent
    /\ UNCHANGED << command_buffer, running_status, control_messages,
                    buffer_lock, status_lock, in_flight, serial_out, task_pc,
                    task_cmd, task_state, enqueued, buffer_ids, in_flight_id, sent_ids,
                    cleared_ids >>
    /\ Alive
    /\ Observe

\* The first n characters of a text.
Prefix(text, n) == SubSeq(text, 1, n)

\* main.rs:204-210  try_clone, the write or the flush fails and unwrap()
\* panics.  By then n characters of the frame have reached the port:
\* none (try_clone or the first write failed), some (a write failed after
\* a partial write), or all of them (the flush reported the failure).
ConsumerWriteError(n) ==
    /\ consumer_pc = "write"
    /\ n \in 0..Len(Frame(in_flight))
    /\ serial_out' = IF n = 0 THEN serial_out
                     ELSE Append(serial_out, Prefix(Frame(in_flight), n))
    /\ sent_ids' = IF n = 0 THEN sent_ids ELSE Append(sent_ids, in_flight_id)
    /\ ConsumerPanic

\* main.rs:213-214, 146  a response line arrives: the exchange ends and, at
\* the end of the loop body, the queue's guard drops.
ConsumerReadLine ==
    /\ Reading
    /\ buffer_lock' = Unlock(buffer_lock)
    /\ in_flight' = NoCommand
    /\ in_flight_id' = 0
    /\ consumer_pc' = "drop_state"
    /\ Silent
    /\ UNCHANGED << command_buffer, running_status, control_messages,
                    receiver_open, status_lock, serial_out, task_pc, task_cmd, task_state,
                    enqueued, buffer_ids, sent_ids, cleared_ids >>
    /\ Alive
    /\ Observe

\* main.rs:146  then the run-state's guard drops.
ConsumerDropState ==
    /\ consumer_pc = "drop_state"
    /\ status_lock' = Unlock(status_lock)
    /\ consumer_pc' = "relock"
    /\ Silent
    /\ UNCHANGED << command_buffer, running_status, control_messages,
                    receiver_open, buffer_lock, in_flight, serial_out, task_pc,
                    task_cmd, task_state, enqueued, buffer_ids, in_flight_id, sent_ids,
                    cleared_ids >>
    /\ Alive
    /\ Observe

\* A read timeout taken for a response: the exchange ends.
ConsumerReadTimeoutSurfaced == ConsumerReadLine

\* main.rs:212-216  the read fails (a timeout, an I/O error, a line that is
\* not UTF-8): `if let Ok` does not match and the loop reads again.
ConsumerReadRetry ==
    /\ Reading
    /\ consumer_pc' = "reread"
    /\ Silent
    /\ UNCHANGED << command_buffer, running_status, control_messages,
                    receiver_open, buffer_lock, status_lock, in_flight,
                    serial_out, task_pc, task_cmd, task_state, enqueued, buffer_ids,
                    in_flight_id, sent_ids, cleared_ids >>
    /\ Alive
    /\ Observe

\* main.rs:213  the reader reaches end of input: next() is None and unwrap()
\* panics.
ConsumerReadEof ==
    /\ Reading
    /\ UNCHANGED << serial_out, sent_ids >>
    /\ ConsumerPanic

(* --------------------------- handler tasks ----------------------------- *)
\* What no handler touches: the consumer thread's own state.
consumer_vars ==
    << consumer_pc, in_flight, in_flight_id, serial_out, sent_ids,
       receiver_open >>

\* Pushes accepted so far, counting those waiting for the queue's mutex.
Accepted == Len(enqueued) + Cardinality({ t \in Tasks : task_pc[t] = "s_push" })

\* main.rs:46  a stream call arrives.
StreamCall(t) ==
    /\ task_pc[t] = "idle"
    /\ task_pc' = [task_pc EXCEPT ![t] = "s_next"]
    /\ Silent
    /\ UNCHANGED << command_buffer, running_status, control_messages,
                    buffer_lock, status_lock, task_cmd, task_state, enqueued,
                    buffer_ids, cleared_ids, consumer_vars >>
    /\ Accepting
    /\ Observe

\* main.rs:48-53  the next command of the stream is empty or holds a CR or an
\* LF: the call returns invalid_argument.
StreamReject(t, command) ==
    /\ task_pc[t] = "s_next"
    /\ IsInvalid(command)
    /\ received' = command
    /\ response' = Reply("invalid_argument")
    /\ task_pc' = [task_pc EXCEPT ![t] = "idle"]
    /\ UNCHANGED << command_buffer, running_status, control_messages,
                    buffer_lock, status_lock, task_cmd, task_state, enqueued, buffer_ids,
                    cleared_ids, consumer_vars >>
    /\ Alive
    /\ Observe

\* main.rs:48-58  the next command is well formed: the task asks for the
\* queue's mutex.
StreamAccept(t, command) ==
    /\ task_pc[t] = "s_next"
    /\ ~IsInvalid(command)
    /\ Accepted < MaxCommands
    /\ task_cmd' = [task_cmd EXCEPT ![t] = command]
    /\ buffer_lock' = Lock(buffer_lock, t)
    /\ task_pc' = [task_pc EXCEPT ![t] = "s_push"]
    /\ received' = command
    /\ response' = NoReply
    /\ UNCHANGED << command_buffer, running_status, control_messages,
                    status_lock, task_state, enqueued, buffer_ids,
                    cleared_ids, consumer_vars >>
    /\ Alive
    /\ Observe

\* main.rs:49  the transport reports an error for the next item: `?` returns
\* it.
StreamTransportError(t) ==
    /\ task_pc[t] = "s_next"
    /\ received' = NoCommand
    /\ response' = Reply("transport_error")
    /\ task_pc' = [task_pc EXCEPT ![t] = "idle"]
    /\ UNCHANGED << command_buffer, running_status, control_messages,
                    buffer_lock, status_lock, task_cmd, task_state, enqueued, buffer_ids,
                    cleared_ids, consumer_vars >>
    /\ Alive
    /\ Observe

\* main.rs:48, 68  the stream ends: the call returns Ok.
StreamEnd(t) ==
    /\ task_pc[t] = "s_next"
    /\ received' = NoCommand
    /\ response' = Reply("ok")
    /\ task_pc' = [task_pc EXCEPT ![t] = "idle"]
    /\ UNCHANGED << command_buffer, running_status, control_messages,
                    buffer_lock, status_lock, task_cmd, task_state, enqueued, buffer_ids,
                    cleared_ids, consumer_vars >>
    /\ Alive
    /\ Observe

\* main.rs:55-59  with the queue's mutex: push_back; the guard drops at the
\* end of the statement.
StreamPush(t) ==
    /\ task_pc[t] = "s_push"
    /\ buffer_lock.holder = t
    /\ command_buffer' = push_back(command_buffer, task_cmd[t])
    /\ buffer_ids' = push_back(buffer_ids, Len(enqueued) + 1)
    /\ enqueued' = Append(enqueued, task_cmd[t])
    /\ task_cmd' = [task_cmd EXCEPT ![t] = NoCommand]
    /\ buffer_lock' = Unlock(buffer_lock)
    /\ task_pc' = [task_pc EXCEPT ![t] = "s_lock"]
    /\ Silent
    /\ UNCHANGED << running_status, control_messages, status_lock,
                    task_state, cleared_ids, consumer_vars >>
    /\ Alive
    /\ Observe

\* main.rs:61  the task asks for the running_status mutex.
StreamLockStatus(t) ==
    /\ task_pc[t] = "s_lock"
    /\ status_lock' = Lock(status_lock, t)
    /\ task_pc' = [task_pc EXCEPT ![t] = "s_status"]
    /\ Silent
    /\ UNCHANGED << command_buffer, running_status, control_messages,
                    buffer_lock, task_cmd, task_state, enqueued, buffer_ids, cleared_ids,
                    consumer_vars >>
    /\ Alive
    /\ Observe

\* main.rs:61  with the running_status mutex: compare with Running; the
\* guard drops at the end of the condition.
StreamStatus(t) ==
    /\ task_pc[t] = "s_status"
    /\ status_lock.holder = t
    /\ status_lock' = Unlock(status_lock)
    /\ task_pc' = [task_pc EXCEPT ![t] =
                      IF running_status = "Running" THEN "s_send" ELSE "s_next"]
    /\ Silent
    /\ UNCHANGED << command_buffer, running_status, control_messages,
                    buffer_lock, task_cmd, task_state, enqueued, buffer_ids,
                    cleared_ids, consumer_vars >>
    /\ Alive
    /\ Observe

\* main.rs:62-64, 87  send(CheckBuffer).unwrap(): a token is queued, or, with
\* the receiver gone, the handler task panics.
\* UnboundedSender::send (main.rs:63, 86) adds one token.
AfterLostSend(tokens) == tokens
AfterSend(tokens) == tokens + 1

SendWake(t, next_pc, reply) ==
    /\ received' = NoCommand
    /\ IF receiver_open
       THEN /\ control_messages' = AfterSend(control_messages)
            /\ task_pc' = [task_pc EXCEPT ![t] = next_pc]
            /\ response' = reply
       ELSE /\ control_messages' = control_messages
            /\ task_pc' = [task_pc EXCEPT ![t] = "idle"]
            /\ response' = Reply("panic")

\* main.rs:62-64
StreamSend(t) ==
    /\ task_pc[t] = "s_send"
    /\ SendWake(t, "s_next", NoReply)
    /\ UNCHANGED << command_buffer, running_status, buffer_lock, status_lock,
                    task_cmd, task_state, enqueued, buffer_ids, cleared_ids,
                    consumer_vars >>
    /\ Alive
    /\ Observe

\* main.rs:72  a clear call arrives and asks for the queue's mutex.
ClearCall(t) ==
    /\ task_pc[t] = "idle"
    /\ buffer_lock' = Lock(buffer_lock, t)
    /\ task_pc' = [task_pc EXCEPT ![t] = "c_clear"]
    /\ Silent
    /\ UNCHANGED << command_buffer, running_status, control_messages,
                    status_lock, task_cmd, task_state, enqueued, buffer_ids,
                    cleared_ids, consumer_vars >>
    /\ Accepting
    /\ Observe

\* VecDeque::clear (main.rs:72)
ClearedPopFront(q) == IF q = <<>> THEN q ELSE Tail(q)
Cleared(q) == <<>>

\* main.rs:72-74  with the queue's mutex: clear(), drop the guard, return Ok.
ClearRun(t) ==
    /\ task_pc[t] = "c_clear"
    /\ buffer_lock.holder = t
    /\ command_buffer' = Cleared(command_buffer)
    /\ buffer_ids' = Cleared(buffer_ids)
    /\ cleared_ids' = cleared_ids \cup (Range(buffer_ids) \ Range(buffer_ids'))
    /\ buffer_lock' = Unlock(buffer_lock)
    /\ received' = NoCommand
    /\ response' = Reply("ok")
    /\ task_pc' = [task_pc EXCEPT ![t] = "idle"]
    /\ UNCHANGED << running_status, control_messages, status_lock, task_cmd, task_state,
                    enqueued, consumer_vars >>
    /\ Alive
    /\ Observe

\* main.rs:78  a pause call arrives and asks for the running_status mutex.
PauseCall(t) ==
    /\ task_pc[t] = "idle"
    /\ status_lock' = Lock(status_lock, t)
    /\ task_pc' = [task_pc EXCEPT ![t] = "p_set"]
    /\ Silent
    /\ UNCHANGED << command_buffer, running_status, control_messages,
                    buffer_lock, task_cmd, task_state, enqueued, buffer_ids,
                    cleared_ids, consumer_vars >>
    /\ Accepting
    /\ Observe

\* main.rs:78-80  with the mutex: store Paused, drop the guard, return Ok.
PauseRun(t) ==
    /\ task_pc[t] = "p_set"
    /\ status_lock.holder = t
    /\ running_status' = PauseValue
    /\ status_lock' = Unlock(status_lock)
    /\ received' = NoCommand
    /\ response' = Reply("ok")
    /\ task_pc' = [task_pc EXCEPT ![t] = "idle"]
    /\ UNCHANGED << command_buffer, control_messages, buffer_lock, task_cmd, task_state,
                    enqueued, buffer_ids, cleared_ids, consumer_vars >>
    /\ Alive
    /\ Observe

\* main.rs:84  a resume call arrives and asks for the running_status mutex.
ResumeCall(t) ==
    /\ task_pc[t] = "idle"
    /\ control_messages < MaxWake
    /\ status_lock' = Lock(status_lock, t)
    /\ task_pc' = [task_pc EXCEPT ![t] = "r_set"]
    /\ Silent
    /\ UNCHANGED << command_buffer, running_status, control_messages,
                    buffer_lock, task_cmd, task_state, enqueued, buffer_ids,
                    cleared_ids, consumer_vars >>
    /\ Accepting
    /\ Observe

\* main.rs:84  with the mutex: store Running, drop the guard.
ResumeRun(t) ==
    /\ task_pc[t] = "r_set"
    /\ status_lock.holder = t
    /\ running_status' = ResumeValue
    /\ status_lock' = Unlock(status_lock)
    /\ task_pc' = [task_pc EXCEPT ![t] = "r_send"]
    /\ Silent
    /\ UNCHANGED << command_buffer, control_messages, buffer_lock, task_cmd, task_state, enqueued, buffer_ids, cleared_ids,
                    consumer_vars >>
    /\ Alive
    /\ Observe

\* main.rs:85-89  send the token, return Ok.
ResumeSend(t) ==
    /\ task_pc[t] = "r_send"
    /\ SendWake(t, "idle", Reply("ok"))
    /\ UNCHANGED << command_buffer, running_status, buffer_lock, status_lock,
                    task_cmd, task_state, enqueued, buffer_ids, cleared_ids,
                    consumer_vars >>
    /\ Alive
    /\ Observe

\* main.rs:93  a get_state call arrives; join! first polls
\* command_buffer.lock(): the task takes the queue's mutex or queues for it.
GetStateCall(t) ==
    /\ task_pc[t] = "idle"
    /\ buffer_lock' = Lock(buffer_lock, t)
    /\ task_pc' = [task_pc EXCEPT ![t] = "g_lock"]
    /\ Silent
    /\ UNCHANGED << command_buffer, running_status, control_messages,
                    status_lock, task_cmd, task_state, enqueued, buffer_ids,
                    cleared_ids, consumer_vars >>
    /\ Accepting
    /\ Observe

\* main.rs:93  in the same poll join! then polls running_status.lock(),
\* whether or not the first lock was given.
GetStateLockStatus(t) ==
    /\ task_pc[t] = "g_lock"
    /\ status_lock' = Lock(status_lock, t)
    /\ task_pc' = [task_pc EXCEPT ![t] = "g_read"]
    /\ Silent
    /\ UNCHANGED << command_buffer, running_status, control_messages,
                    buffer_lock, task_cmd, task_state, enqueued, buffer_ids,
                    cleared_ids, consumer_vars >>
    /\ Alive
    /\ Observe

\* main.rs:95-98  with both guards: the BufferState is built from the length
\* and the status; on the way out `status`, declared last, drops first.
GetStateRun(t) ==
    /\ task_pc[t] = "g_read"
    /\ buffer_lock.holder = t
    /\ status_lock.holder = t
    /\ task_state' = [task_state EXCEPT ![t] =
                          [kind |-> "state",
                           buffer_length |-> Len(command_buffer),
                           running_status |-> running_status]]
    /\ status_lock' = Unlock(status_lock)
    /\ task_pc' = [task_pc EXCEPT ![t] = "g_drop"]
    /\ Silent
    /\ UNCHANGED << command_buffer, running_status, control_messages,
                    buffer_lock, task_cmd, enqueued, buffer_ids, cleared_ids,
                    consumer_vars >>
    /\ Alive
    /\ Observe

\* main.rs:95-99  then `buffer` drops and the call returns the BufferState.
GetStateReturn(t) ==
    /\ task_pc[t] = "g_drop"
    /\ buffer_lock' = Unlock(buffer_lock)
    /\ received' = NoCommand
    /\ response' = task_state[t]
    /\ task_state' = [task_state EXCEPT ![t] = NoReply]
    /\ task_pc' = [task_pc EXCEPT ![t] = "idle"]
    /\ UNCHANGED << command_buffer, running_status, control_messages,
                    status_lock, task_cmd, enqueued, buffer_ids, cleared_ids,
                    consumer_vars >>
    /\ Alive
    /\ Observe

(* ------------------------- start and shutdown -------------------------- *)
\* What the steps of main() itself leave alone.
program_vars ==
    << command_buffer, running_status, control_messages, receiver_open,
       buffer_lock, status_lock, consumer_pc, in_flight, serial_out, task_pc,
       task_cmd, task_state, enqueued, buffer_ids, in_flight_id, sent_ids, cleared_ids >>

\* main.rs:181-193  one turn of get_serial_port's loop: enumerate, take the
\* first port the filter accepts, or sleep one second and go round again.
AcquirePoll(result) ==
    /\ process = "acquiring"
    /\ IF Find(UnwrapOrDefault(result), device) # NoPort
       THEN /\ port_info' = Find(UnwrapOrDefault(result), device)
            /\ process' = "opening"
            /\ UNCHANGED << polls, waited >>
       ELSE /\ polls < MaxPolls
            /\ polls' = polls + 1
            /\ waited' = waited + PollSeconds
            /\ UNCHANGED << process, port_info >>
    /\ Silent
    /\ UNCHANGED << device, program_vars >>
    /\ Observe

\* main.rs:195-198, 119-163  open() succeeds: get_serial_port returns, main()
\* creates the channel, the run-state and the queue, starts the consumer
\* thread and the server.
OpenOk ==
    /\ process = "opening"
    /\ process' = "serving"
    /\ Silent
    /\ UNCHANGED << device, port_info, polls, waited, program_vars >>
    /\ Observe

\* main.rs:198  open() fails: panic!("Could not create port on ...") on the
\* main thread ends the process.
OpenFail ==
    /\ process = "opening"
    /\ process' = "failed"
    /\ Silent
    /\ UNCHANGED << device, port_info, polls, waited, program_vars >>
    /\ Observe

\* main.rs:158-160  ctrl_c() resolves: the server stops taking new calls and
\* lets the calls in progress finish.
ShutdownSignal ==
    /\ process = "serving"
    /\ process' = "stopping"
    /\ Silent
    /\ UNCHANGED << device, port_info, polls, waited, program_vars >>
    /\ Observe

\* main.rs:163-164  the server future completes once no call is in progress;
\* main() returns and the process ends, the consumer thread with it,
\* wherever that thread is.
ProcessExit ==
    /\ process = "stopping"
    /\ \A t \in Tasks : task_pc[t] = "idle"
    /\ process' = "exited"
    /\ Silent
    /\ UNCHANGED << device, port_info, polls, waited, program_vars >>
    /\ Observe

(* ------------------------------- Next ---------------------------------- *)
ConsumerStep ==
    \/ ConsumerRecv
    \/ ConsumerRelock
    \/ ConsumerLockBuffer
    \/ ConsumerBreak
    \/ ConsumerBreakState
    \/ ConsumerPop
    \/ ConsumerWrite
    \/ ConsumerReadLine
    \/ ConsumerDropState

SerialFault ==
    \/ \E n \in 0..Len(Frame(in_flight)) : ConsumerWriteError(n)
    \/ ConsumerReadRetry
    \/ ConsumerReadEof
    \/ ConsumerUnwindState
    \/ ConsumerUnwindReceiver

StreamStep(t) ==
    \/ StreamCall(t)
    \/ \E command \in CommandInputs : StreamReject(t, command)
    \/ \E command \in CommandInputs : StreamAccept(t, command)
    \/ StreamTransportError(t)
    \/ StreamEnd(t)
    \/ StreamPush(t)
    \/ StreamLockStatus(t)
    \/ StreamStatus(t)
    \/ StreamSend(t)

Next ==
    \/ ConsumerStep
    \/ SerialFault
    \/ \E t \in Tasks : StreamStep(t)
    \/ \E t \in Tasks : ClearCall(t) \/ ClearRun(t)
    \/ \E t \in Tasks : PauseCall(t) \/ PauseRun(t)
    \/ \E t \in Tasks : ResumeCall(t) \/ ResumeRun(t) \/ ResumeSend(t)
    \/ \E t \in Tasks : GetStateCall(t) \/ GetStateLockStatus(t)
                           \/ GetStateRun(t) \/ GetStateReturn(t)

(* --------------------------- specifications ---------------------------- *)
\* The program alone.
Spec == Init /\ [][Next]_vars

\* The program with the run-state's writers observed.
SpecState == InitState /\ [][Next]_vars

\* The program with the serial failures observed.
SpecFault == InitFault /\ [][Next]_vars

\* The program with the response lines counted.
SpecExchange == InitExchange /\ [][Next]_vars

\* What the consumer thread and the handler tasks do without a new request
\* or a new stream item arriving: the steps the scheduler owes them.
TaskRun(t) ==
    \/ StreamPush(t)
    \/ StreamLockStatus(t)
    \/ StreamStatus(t)
    \/ StreamSend(t)
    \/ ClearRun(t)
    \/ PauseRun(t)
    \/ ResumeRun(t)
    \/ ResumeSend(t)
    \/ GetStateLockStatus(t)
    \/ GetStateRun(t)
    \/ GetStateReturn(t)

\* The consumer is a thread of its own and every woken task is polled; the
\* device answers every command (ConsumerReadLine is part of ConsumerStep).
Fairness == WF_vars(ConsumerStep) /\ \A t \in Tasks : WF_vars(TaskRun(t))

\* stream, pause and resume calls against a device that always answers.
NextWake ==
    \/ ConsumerStep
    \/ \E t \in Tasks : StreamStep(t)
    \/ \E t \in Tasks : PauseCall(t) \/ PauseRun(t)
    \/ \E t \in Tasks : ResumeCall(t) \/ ResumeRun(t) \/ ResumeSend(t)

SpecWake == InitWake /\ [][NextWake]_vars /\ Fairness

\* stream and get_state calls with the run-state left Running, against a
\* device that always answers.
NextDrain ==
    \/ ConsumerStep
    \/ \E t \in Tasks : StreamStep(t)
    \/ \E t \in Tasks : GetStateCall(t) \/ GetStateLockStatus(t)
                           \/ GetStateRun(t) \/ GetStateReturn(t)

SpecDrain == Init /\ [][NextDrain]_vars /\ Fairness

\* stream, pause, resume and get_state calls with no clear(), the pause()
\* and resume() calls observed; the serial port may fail.
NextPause ==
    \/ ConsumerStep
    \/ SerialFault
    \/ \E t \in Tasks : StreamStep(t)
    \/ \E t \in Tasks : PauseCall(t) \/ PauseRun(t)
    \/ \E t \in Tasks : ResumeCall(t) \/ ResumeRun(t) \/ ResumeSend(t)
    \/ \E t \in Tasks : GetStateCall(t) \/ GetStateLockStatus(t)
                           \/ GetStateRun(t) \/ GetStateReturn(t)

SpecPause == InitPause /\ [][NextPause]_vars

\* stream, clear, pause and resume calls, the clear() calls observed; the
\* serial port may fail.
NextClear ==
    \/ ConsumerStep
    \/ SerialFault
    \/ \E t \in Tasks : StreamStep(t)
    \/ \E t \in Tasks : ClearCall(t) \/ ClearRun(t)
    \/ \E t \in Tasks : PauseCall(t) \/ PauseRun(t)
    \/ \E t \in Tasks : ResumeCall(t) \/ ResumeRun(t) \/ ResumeSend(t)

SpecClear == InitClear /\ [][NextClear]_vars

\* Every call, against a device that takes the writes and never sends a
\* line: every read times out.
NextStall ==
    \/ ConsumerRecv
    \/ ConsumerRelock
    \/ ConsumerLockBuffer
    \/ ConsumerBreak
    \/ ConsumerBreakState
    \/ ConsumerPop
    \/ ConsumerWrite
    \/ ConsumerReadRetry
    \/ \E t \in Tasks : StreamStep(t)
    \/ \E t \in Tasks : ClearCall(t) \/ ClearRun(t)
    \/ \E t \in Tasks : PauseCall(t) \/ PauseRun(t)
    \/ \E t \in Tasks : ResumeCall(t) \/ ResumeRun(t) \/ ResumeSend(t)
    \/ \E t \in Tasks : GetStateCall(t) \/ GetStateLockStatus(t)
                           \/ GetStateRun(t) \/ GetStateReturn(t)

SpecStall == Init /\ [][NextStall]_vars

\* stream calls alone, each call's pushes observed; the serial port may
\* fail.
NextStream ==
    \/ ConsumerStep
    \/ SerialFault
    \/ \E t \in Tasks : StreamStep(t)

SpecStream == InitStream /\ [][NextStream]_vars

\* stream calls until the shutdown signal and the end of the process; the
\* device answers.
NextShutdown ==
    \/ ConsumerStep
    \/ \E t \in Tasks : StreamStep(t)
    \/ ShutdownSignal
    \/ ProcessExit

SpecShutdown == Init /\ [][NextShutdown]_vars

\* main() from its start: device acquisition, then pause and resume calls
\* with the consumer thread woken on an empty queue.
NextAcquire ==
    \/ \E result \in Enumerations : AcquirePoll(result)
    \/ OpenOk
    \/ OpenFail
    \/ ConsumerRecv
    \/ ConsumerRelock
    \/ ConsumerLockBuffer
    \/ ConsumerBreak
    \/ ConsumerBreakState
    \/ \E t \in Tasks : PauseCall(t) \/ PauseRun(t)
    \/ \E t \in Tasks : ResumeCall(t) \/ ResumeRun(t) \/ ResumeSend(t)

SpecAcquire == InitAcquire /\ [][NextAcquire]_vars

\* The same calls as NextPause, the pause() calls observed from their start.
SpecMidDrain == InitMidDrain /\ [][NextPause]_vars

\* The same calls as NextPause, the consumer's passes observed.
SpecToken == InitToken /\ [][NextPause]_vars

(* ------------------------------- claims -------------------------------- *)
\* A text the interface must refuse: empty, or holding a carriage return or
\* a line feed.
Malformed(text) ==
    text = <<>> \/ \E i \in 1..Len(text) : text[i] = "\r" \/ text[i] = "\n"

\* p is the beginning of text.
IsPrefix(p, text) == Len(p) <= Len(text) /\ p = SubSeq(text, 1, Len(p))

\* The consumer thread has panicked.
Panicked == consumer_pc \in {"unwind_state", "unwind_receiver", "dead"}

\* C1: as long as no clear() has removed anything, the writes to the serial
\* port carry, write by write, the texts pushed to the queue in push order:
\* a prefix of the push order, nothing reordered, nothing skipped.  Each
\* write is the text and its carriage return, whole; only the last write of
\* a consumer that has panicked may be cut short.
C1_FifoDispatch ==
    cleared_ids = {} =>
        /\ Len(serial_out) <= Len(enqueued)
        /\ \A i \in 1..Len(serial_out) :
              /\ serial_out[i] # <<>>
              /\ IsPrefix(serial_out[i], enqueued[i] \o <<"\r">>)
              /\ (i < Len(serial_out) \/ ~Panicked)
                    => serial_out[i] = enqueued[i] \o <<"\r">>

\* C1 witness: two different commands were pushed and both were written, and
\* nothing was cleared.
C1_Witness ==
    /\ cleared_ids = {}
    /\ Len(serial_out) = 2
    /\ Len(enqueued) = 2
    /\ enqueued[1] # enqueued[2]

\* What C2 asks of a step taken while pause() is in force: nothing is
\* written to the serial port, a push makes the queue one longer, and a well
\* formed text is not refused.
PausedStep ==
    /\ ~Written
    /\ Pushed => Len(command_buffer') = Len(command_buffer) + 1
    /\ (received' # NoCommand /\ ~Malformed(received'))
          => response'.kind # "invalid_argument"

\* C2 as claimed: from the return of a pause() to the start of the next
\* resume(), every step is a PausedStep.
C2_PausedUntilResumeStarts ==
    [][ pause_window # "none" => PausedStep ]_vars

\* C2 as amended: the same, for a pause() that returns while no resume()
\* call is waiting to store Running.
C2_PausedUnlessResumePending ==
    [][ pause_window = "clean" => PausedStep ]_vars

\* C2 witness: after such a pause() two commands were pushed, both are in
\* the queue, and nothing has been written.
C2_Witness ==
    /\ pause_window = "clean"
    /\ pause_pushes = 2
    /\ Len(command_buffer) = 2
    /\ serial_out = <<>>
    /\ running_status = "Paused"

\* A state in which a wake has been lost: work is queued, the run-state is
\* Running, the consumer waits on an empty channel, and no task is between
\* its push (or its store of Running) and its send.
LostWake ==
    /\ running_status = "Running"
    /\ command_buffer # <<>>
    /\ consumer_pc = "recv"
    /\ control_messages = 0
    /\ \A t \in Tasks : task_pc[t] \notin {"s_lock", "s_status", "s_send", "r_send"}

\* C3: no state is a LostWake; and an entry pushed while Paused is, once the
\* run-state is Running again, eventually written unless the run-state is
\* Paused again first; entries are written in push order.
C3_NoLostWake ==
    /\ [](~LostWake)
    /\ [](\A i \in 1..Len(sent_ids) : sent_ids[i] = i)
    /\ \A n \in 1..MaxCommands :
          (n \in enq_paused /\ running_status = "Running")
             ~> (n \in Range(sent_ids) \/ running_status = "Paused")

\* C3 witness: two entries were pushed while Paused and, after a resume(),
\* both have been written.
C3_Witness ==
    /\ Cardinality(enq_paused) = 2
    /\ enq_paused \subseteq Range(sent_ids)

\* C4: a step in which a stream yields a malformed text returns
\* invalid_argument and leaves the queue, the run-state and the wake channel
\* as they were.
C4_RejectMalformed ==
    [][ (received' # NoCommand /\ Malformed(received'))
          => /\ response'.kind = "invalid_argument"
             /\ UNCHANGED << command_buffer, enqueued, running_status,
                             control_messages >> ]_vars

\* C4 witness: a text holding a line feed has just been refused while the
\* queue held a command.
C4_Witness ==
    /\ response.kind = "invalid_argument"
    /\ received = <<"a", "\n", "b">>
    /\ command_buffer # <<>>

\* C5: a clear() that takes effect leaves the queue empty, whatever the
\* run-state, and does not touch the command in flight; and an entry that
\* was queued when a clear() was called during a serial exchange is never
\* written afterwards.
C5_ClearDropsQueued ==
    [][ /\ ClearTookEffect =>
              /\ command_buffer' = <<>>
              /\ UNCHANGED << in_flight, serial_out, running_status >>
        /\ Written => (in_flight_id \notin doomed) ]_vars

\* C5 witness: with the run-state Paused, a clear() was called during an
\* exchange while an entry was queued behind the command in flight; that
\* command was written, the queued entry was dropped by the clear().
C5_Witness ==
    /\ doomed # {}
    /\ doomed \subseteq cleared_ids
    /\ sent_ids # <<>>
    /\ \A i \in doomed : i > sent_ids[Len(sent_ids)]
    /\ command_buffer = <<>>
    /\ running_status = "Paused"

\* The run-state a pause() or a resume() leaves.
EffectOf(call) == IF call = "pause" THEN "Paused" ELSE "Running"

\* The queue length get_state must report: pushed, less written, less
\* cleared.
Outstanding == Len(enqueued) - Len(sent_ids) - Cardinality(cleared_ids)

\* C6: whenever get_state builds its report, the length in it is pushed -
\* written - cleared, the run-state in it is the effect of the last pause()
\* or resume() to have stored (Running if none has), and both are the values
\* of one state; and the report it returns is the one it built.
C6_StateReport ==
    [][ \A t \in Tasks :
          /\ StateRead(t) =>
                /\ task_state'[t].buffer_length = Outstanding
                /\ task_state'[t].buffer_length = Len(command_buffer)
                /\ task_state'[t].running_status = EffectOf(last_effect)
                /\ task_state'[t].running_status = running_status
          /\ StateReturned(t) => response' = task_state[t] ]_vars

\* C7: with the run-state left Running, no clear() and a device that
\* answers, every entry pushed is eventually written, and the queue is
\* eventually empty again.
C7_EventuallyDrained ==
    /\ \A n \in 1..MaxCommands : (Len(enqueued) >= n) ~> (Len(sent_ids) >= n)
    /\ (command_buffer # <<>>) ~> (command_buffer = <<>>)

\* C8: while the consumer is inside a serial exchange it holds neither the
\* queue's mutex nor the run-state's mutex.
C8_NoLockAcrossExchange ==
    Exchanging =>
        /\ buffer_lock.holder # Consumer
        /\ status_lock.holder # Consumer

\* C9: once a serial write or read has failed, no further command is
\* accepted into the queue and none is written to the device.
C9_FailureIsFatal ==
    [][ io_failed => (enqueued' = enqueued /\ serial_out' = serial_out) ]_vars

\* C10: the run-state starts Running and is always Running or Paused; a
\* step changes it only if it is pause()'s store or resume()'s store;
\* pause()'s store leaves it Paused and resume()'s store leaves it Running.
C10_RunStateFrame ==
    /\ running_status = "Running"
    /\ [][ /\ running_status' \in {"Running", "Paused"}
           /\ running_status' # running_status => (PauseReturned \/ ResumeStored)
           /\ PauseReturned => running_status' = "Paused"
           /\ ResumeStored => running_status' = "Running" ]_vars

\* C10 witness: get_state has just reported Paused, after a push and after a
\* clear() that removed an entry.
C10_Witness ==
    /\ response.kind = "state"
    /\ response.running_status = "Paused"
    /\ enqueued # <<>>
    /\ cleared_ids # {}

\* What C11 asks of the queue in a step taken after a pause() call: entries
\* keep their order; the step appends one entry, removes the head, or leaves
\* the queue as it is.
QueueKeepsOrder ==
    \/ buffer_ids' = buffer_ids
    \/ buffer_ids' = Append(buffer_ids, Len(enqueued'))
    \/ buffer_ids # <<>> /\ buffer_ids' = Tail(buffer_ids)

\* C11 as claimed: after a pause() call and until the next resume() starts,
\* the only command written is the one that was in flight at the call, and
\* no command is popped.
C11_OnlyInFlightAfterPauseCall ==
    [][ pause_called =>
            /\ Written => (pause_mark # 0 /\ in_flight_id = pause_mark)
            /\ ~Popped
            /\ QueueKeepsOrder ]_vars

\* C11 as amended: after a pause() call and until the next resume() starts,
\* at most one command is written; it is the one in flight at the call or,
\* if none was in flight, the one the loop pops next; after it nothing is
\* popped, and the queue keeps its order.
C11_AtMostOneAfterPauseCall ==
    [][ pause_called =>
            /\ Written => pause_writes = 0
            /\ Written => (pause_mark = 0 \/ in_flight_id = pause_mark)
            /\ Popped => (pause_mark = 0 /\ pause_writes = 0)
            /\ QueueKeepsOrder ]_vars

\* C11 witness: pause() was called while the first of two queued commands
\* was in flight; that command was written and answered, pause() has
\* returned, and the second command is still in the queue.
C11_Witness ==
    /\ pause_called
    /\ pause_mark = 1
    /\ sent_ids = <<1>>
    /\ buffer_ids = <<2>>
    /\ consumer_pc = "recv"
    /\ running_status = "Paused"
    /\ \A t \in Tasks : task_pc[t] # "p_set"

\* C12: a token only wakes the loop.  Taking a token removes exactly one
\* token and touches neither the queue, the run-state nor the serial port;
\* a command is popped only while the run-state is Running, whatever the
\* number of tokens pending, and popping takes no token; after an exchange
\* the loop looks at the queue again without taking a token; the loop goes
\* back to waiting for a token only when the queue is empty or the run-state
\* is not Running, and that step sends nothing and changes neither the queue
\* nor the run-state.
C12_TokensCoalesce ==
    [][ /\ control_messages' < control_messages =>
              /\ TokenTaken
              /\ control_messages' = control_messages - 1
              /\ UNCHANGED << command_buffer, running_status, serial_out >>
        /\ Popped =>
              /\ running_status = "Running"
              /\ control_messages' = control_messages
        /\ (/\ consumer_pc \in {"read", "reread", "drop_state", "relock"}
            /\ consumer_pc' \notin {consumer_pc, "read", "reread",
                                     "unwind_state"}) =>
              /\ consumer_pc' \in {"drop_state", "relock", "lock_status"}
              /\ control_messages' = control_messages
        /\ PassEnded =>
              /\ running_status # "Running" \/ command_buffer = <<>>
              /\ UNCHANGED << command_buffer, running_status, serial_out >> ]_vars

\* C12 witness: the loop took one token and wrote two commands on it; it is
\* back waiting, the queue is empty and a second token is still pending.
C12_Witness ==
    /\ pass_writes = 2
    /\ consumer_pc = "recv"
    /\ command_buffer = <<>>
    /\ control_messages >= 1

\* The number of carriage returns in a text.
CountCR(text) == Cardinality({ i \in 1..Len(text) : text[i] = "\r" })

\* C13 as claimed: a command is written only when every command written
\* before it has had a response line read for it, so at most one written
\* command is unanswered; and every write is the command's text followed by
\* exactly one carriage return.
C13_OneInFlight ==
    /\ [][ Written => responses = Len(serial_out) ]_vars
    /\ [](/\ Len(serial_out) - responses \in {0, 1}
          /\ \A i \in 1..Len(serial_out) :
                /\ serial_out[i] = enqueued[sent_ids[i]] \o <<"\r">>
                /\ CountCR(serial_out[i]) = 1)

\* C13 as amended: the same, for the writes that succeed: a write that
\* returns is the command's text followed by exactly one carriage return; a
\* write that fails leaves the beginning of that frame on the port, with no
\* more than its one carriage return, and is the last write.
C13_OneInFlightWholeFrames ==
    /\ [][ /\ Written => responses = Len(serial_out)
           /\ (consumer_pc = "write" /\ consumer_pc' = "read") =>
                 /\ serial_out' =
                       Append(serial_out, enqueued[in_flight_id] \o <<"\r">>)
                 /\ CountCR(serial_out'[Len(serial_out')]) = 1 ]_vars
    /\ [](/\ Len(serial_out) - responses \in {0, 1}
          /\ \A i \in 1..Len(serial_out) :
                /\ IsPrefix(serial_out[i], enqueued[sent_ids[i]] \o <<"\r">>)
                /\ CountCR(serial_out[i]) <= 1
                /\ (i < Len(serial_out) \/ ~Panicked)
                      => /\ serial_out[i] = enqueued[sent_ids[i]] \o <<"\r">>
                         /\ CountCR(serial_out[i]) = 1)

\* C13 witness: two commands were written and two response lines were read.
C13_Witness ==
    /\ Len(serial_out) = 2
    /\ responses = 2

\* C14: with a device that never sends a line, a read that times out
\* returns nothing to any caller and changes nothing but the consumer's
\* place in the read loop; once in the exchange the consumer never leaves
\* it; at most one command is ever written; and no handler sees a panic or
\* an error caused by the timeout.
C14_TimeoutRetriedForever ==
    /\ [][ /\ (consumer_pc = "read" /\ consumer_pc' = "reread") =>
                 /\ response' = NoReply
                 /\ UNCHANGED << command_buffer, running_status,
                                 control_messages, receiver_open, buffer_lock,
                                 status_lock, in_flight, serial_out, task_pc >>
           /\ Reading => Reading' ]_vars
    /\ [](/\ Len(serial_out) <= 1
          /\ receiver_open
          /\ response.kind # "panic")

\* C14 witness: the first command was written, a read has timed out, and a
\* second command is in the queue, unwritten.
C14_Witness ==
    /\ consumer_pc = "reread"
    /\ sent_ids = <<1>>
    /\ buffer_ids = <<2>>

\* A cycle of lock waits: one party holds the run-state's mutex and waits
\* for the queue's, another holds the queue's and waits for the run-state's.
LockCycle ==
    \E p, q \in Tasks \cup {Consumer} :
        /\ status_lock.holder = p
        /\ p \in Range(buffer_lock.waiters)
        /\ buffer_lock.holder = q
        /\ q \in Range(status_lock.waiters)

\* C15: no reachable state holds a cycle of lock waits.
C15_NoLockCycle == ~LockCycle

\* The fates of the entry pushed n-th: written to the device, removed by
\* clear(), still in the queue, or popped with its write about to be made.
Dispatched(n) == n \in Range(sent_ids)
WasCleared(n) == n \in cleared_ids
Queued(n) == n \in Range(buffer_ids)
BeingWritten(n) == consumer_pc = "write" /\ in_flight_id = n
Fates(n) ==
    (IF Dispatched(n) THEN 1 ELSE 0) + (IF WasCleared(n) THEN 1 ELSE 0)
      + (IF Queued(n) THEN 1 ELSE 0) + (IF BeingWritten(n) THEN 1 ELSE 0)

\* C16: every write is of an entry pushed earlier, no entry is written
\* twice or queued twice, and every entry pushed has exactly one fate.
C16_ExactlyOneFate ==
    /\ \A i \in 1..Len(sent_ids) :
          /\ sent_ids[i] \in 1..Len(enqueued)
          /\ serial_out[i] = enqueued[sent_ids[i]] \o <<"\r">>
          /\ \A j \in 1..Len(sent_ids) : sent_ids[i] = sent_ids[j] => i = j
    /\ \A i, j \in 1..Len(buffer_ids) : buffer_ids[i] = buffer_ids[j] => i = j
    /\ \A n \in 1..Len(enqueued) : Fates(n) = 1

\* C17: the step that refuses a stream call for a malformed item ends the
\* call with invalid_argument, pushes nothing, and leaves the queue, with
\* the entries the call pushed before, as it was; every entry a call has
\* pushed is well formed; and an entry is pushed only by a task inside an
\* open stream call, so nothing of a refused call is pushed after the
\* refusal.
C17_RejectKeepsEarlier ==
    [][ /\ \A t \in Tasks : Rejected(t) =>
              /\ Malformed(received')
              /\ UNCHANGED << command_buffer, buffer_ids, enqueued, sent_ids,
                              cleared_ids >>
              /\ task_cmd'[t] = NoCommand
              /\ call_ids'[t] = call_ids[t]
        /\ enqueued' # enqueued =>
              \E t \in Tasks :
                 /\ PushedBy(t)
                 /\ enqueued' = Append(enqueued, task_cmd[t])
                 /\ ~Malformed(task_cmd[t])
                 /\ Len(enqueued') \in call_ids'[t] ]_vars

\* C17 witness: a stream call pushed two commands and was then refused for
\* its third item, which held a carriage return; both commands are still in
\* the queue.
C17_Witness ==
    \E t \in Tasks :
        /\ task_pc[t] = "idle"
        /\ call_ids[t] = {1, 2}
        /\ response.kind = "invalid_argument"
        /\ received = <<"a", "\r">>
        /\ buffer_ids = <<1, 2>>

\* C18: the process never ends while the consumer is inside a serial
\* exchange: in no state has the process exited with a command popped and
\* its write or its response outstanding.
C18_ExitWaitsForExchange == process = "exited" => ~Exchanging

\* A port that matches the selector: the port at the exact path when a path
\* is given, otherwise a port whose product string holds "EiBotBoard".
HoldsIdentifier(text) ==
    \E k \in 0..(Len(text) - 10) :
        << text[k + 1], text[k + 2], text[k + 3], text[k + 4], text[k + 5],
           text[k + 6], text[k + 7], text[k + 8], text[k + 9], text[k + 10] >>
          = << "E", "i", "B", "o", "t", "B", "o", "a", "r", "d" >>
MatchesSelector(selector, info) ==
    IF selector # "none" THEN info.port_name = selector
    ELSE info.product # <<"?">> /\ HoldsIdentifier(info.product)

\* Before get_serial_port has returned nothing of the service has run.
NothingServed ==
    /\ \A t \in Tasks : task_pc[t] = "idle"
    /\ consumer_pc = "recv"
    /\ control_messages = 0
    /\ running_status = "Running"
    /\ command_buffer = <<>>
    /\ serial_out = <<>>
    /\ response = NoReply

\* C19: while no port matches, acquisition stays in its loop, sleeping one
\* second per turn; it leaves the loop only with a port that matches the
\* selector; with a port matched, the open either succeeds, and only then
\* does the service run, or fails, and then the process has ended for good
\* without another enumeration; the process never fails with no port
\* matched.
C19_AcquireThenServe ==
    /\ [](/\ process = "acquiring" => port_info = NoPort
          /\ process # "acquiring" => MatchesSelector(device, port_info)
          /\ process \in {"acquiring", "opening", "failed"} => NothingServed
          /\ waited = polls)
    /\ [][ /\ (process = "acquiring" /\ process' # "acquiring") =>
                 process' = "opening"
           /\ process = "opening" =>
                 /\ process' \in {"serving", "failed"}
                 /\ polls' = polls
           /\ process # "failed" ]_vars

\* C19 witness: with no --device argument two enumerations found no
\* matching port, a later one found the EiBotBoard, the open succeeded, and
\* a pause() has since been served.
C19_Witness ==
    /\ process = "serving"
    /\ polls = 2
    /\ device = "none"
    /\ port_info.port_name = "/dev/ttyACM0"
    /\ running_status = "Paused"

====
